---- MODULE Spec2Model ----
(***************************************************************************)
(* Threat scoring engine of the social-engineering detector:               *)
(* services/threatDetection.ts (analyzeThreatWithNLP, scanCommunication,   *)
(* updateUserStats, markThreatResolved, markThreatAcknowledged), the       *)
(* ThreatScanner / ThreatCard / Dashboard callers and the tables of the    *)
(* migration.                                                              *)
(*                                                                         *)
(* Strings that the code inspects character by character (content,         *)
(* indicators) are sequences of one-character strings.  Numbers with a     *)
(* fractional part are kept exact: a severity_weight is a count of         *)
(* hundredths (the column is numeric(3,2)), a computed confidence is a     *)
(* fraction [num, den], a stored confidence_score is a count of hundredths *)
(* (the column is numeric(5,2)).                                           *)
(***************************************************************************)
EXTENDS Integers, Sequences, FiniteSets, TLC

VARIABLES
    catalog,            \* rows of threat_patterns with is_active = true, in table order
    threat_detections,  \* table threat_detections: sequence of rows, id = position
    detection_stats,    \* table detection_stats: set of rows
    nextStatsId,        \* next primary key of detection_stats
    today,              \* the current date (day number)
    threats,            \* Dashboard state `threats`: the rows last loaded by loadData
    pc,                 \* per session: position inside handleScan / scanCommunication
    req,                \* per session: arguments of the running scanCommunication call
    analysis,           \* per session: result of analyzeThreatWithNLP
    existing,           \* per session: row read by updateUserStats
    result,             \* per session: value returned by scanCommunication
    hist,               \* per session: what happened during the running call (history)
    statsFaulted        \* some request of updateUserStats was answered with an I/O error (history)

vars == <<catalog, threat_detections, detection_stats, nextStatsId, today, threats,
          pc, req, analysis, existing, result, hist, statsFaulted>>

----------------------------------------------------------------------------
(* Bounds *)

NumSessions == 2
MaxRecords == 2
MaxDay == 2
MaxPatterns == 3

\* a nullable value is a sequence of at most one element
None == <<>>
Some(x) == <<x>>
\* a timestamptz column that is NULL
NoDate == 0

Sessions == 1..NumSessions
Users == {"u1"}
Severities == {"safe", "low", "medium", "high", "critical"}
SourceTypes == {"email", "message", "link", "other"}
Statuses == {"new", "acknowledged", "resolved", "false_positive"}

----------------------------------------------------------------------------
(* Strings *)

LowerChar(c) ==
    CASE c = "A" -> "a"
      [] c = "B" -> "b"
      [] c = "C" -> "c"
      [] OTHER -> c

toLowerCase(s) == [i \in DOMAIN s |-> LowerChar(s[i])]

toUpperCase(sourceType) ==
    CASE sourceType = "email" -> "EMAIL"
      [] sourceType = "message" -> "MESSAGE"
      [] sourceType = "link" -> "LINK"
      [] sourceType = "other" -> "OTHER"
      [] OTHER -> sourceType

includes(s, t) ==
    \E i \in 0..(Len(s) - Len(t)) : SubSeq(s, i + 1, i + Len(t)) = t

IsSpace(c) == c = " "

RECURSIVE trimStart(_)
trimStart(s) ==
    IF s # <<>> /\ IsSpace(Head(s)) THEN trimStart(Tail(s)) ELSE s

RECURSIVE trimEnd(_)
trimEnd(s) ==
    IF s # <<>> /\ IsSpace(s[Len(s)]) THEN trimEnd(SubSeq(s, 1, Len(s) - 1)) ELSE s

trim(s) == trimEnd(trimStart(s))

RECURSIVE slice3(_)
slice3(s) == IF Len(s) <= 3 THEN s ELSE slice3(SubSeq(s, 1, Len(s) - 1))

----------------------------------------------------------------------------
(* Fractions *)

Frac(n, d) == [num |-> n, den |-> d]

FracLeq(a, b) == a.num * b.den <= b.num * a.den

\* numeric(5,2): the value rounded to hundredths, half away from zero
ToNumeric2(q) == (2 * 100 * q.num + q.den) \div (2 * q.den)

----------------------------------------------------------------------------
(* JavaScript numbers.  severity_weight reaches the code as a JSON number,  *)
(* that is the IEEE 754 double nearest to the decimal; sums and quotients   *)
(* are rounded to nearest, ties to even, after every operation.  A double   *)
(* is kept as its exact binary expansion: FxBits bits, most significant     *)
(* first, IntBits of them before the binary point, of which at most         *)
(* MantissaBits consecutive ones are significant.                           *)

IntBits == 8
FracBits == 70
MantissaBits == 53
FxBits == IntBits + FracBits

\* the bits are added and divided in groups of LimbBits (FxBits is a multiple)
LimbBits == 13
NumLimbs == FxBits \div LimbBits

Pow2(n) == 2 ^ n

FxZero == [i \in 1..FxBits |-> 0]

\* the integer k, 0 <= k < 2^IntBits
FxInt(k) ==
    [i \in 1..FxBits |-> IF i <= IntBits THEN (k \div Pow2(IntBits - i)) % 2 ELSE 0]

\* the number made of the bits from .. to of x
RECURSIVE BitsValue(_, _, _)
BitsValue(x, from, to) ==
    IF from = to THEN x[from]
    ELSE LET mid == (from + to) \div 2
         IN  BitsValue(x, from, mid) * Pow2(to - mid) + BitsValue(x, mid + 1, to)

ToLimbs(x) ==
    [l \in 1..NumLimbs |-> BitsValue(x, (l - 1) * LimbBits + 1, l * LimbBits)]

FromLimbs(ls) ==
    [i \in 1..FxBits |->
        (ls[(i - 1) \div LimbBits + 1] \div Pow2(LimbBits - 1 - ((i - 1) % LimbBits))) % 2]

\* x / n by long division: the quotient and whether a remainder is left
RECURSIVE FxDivStep(_, _, _, _, _)
FxDivStep(ls, n, l, rem, acc) ==
    IF l > NumLimbs THEN [bits |-> FromLimbs(acc), sticky |-> rem # 0]
    ELSE LET cur == rem * Pow2(LimbBits) + ls[l]
         IN  FxDivStep(ls, n, l + 1, cur % n, Append(acc, cur \div n))

FxDivide(x, n) == FxDivStep(ToLimbs(x), n, 1, 0, <<>>)

\* position of the leading 1 bit, FxBits + 1 for zero
FxLead(x) ==
    IF \A i \in 1..FxBits : x[i] = 0 THEN FxBits + 1
    ELSE CHOOSE i \in 1..FxBits : x[i] = 1 /\ \A j \in 1..(i - 1) : x[j] = 0

\* round to nearest, ties to even, at MantissaBits significant bits
FxRound(q) ==
    LET x == q.bits
        last == FxLead(x) + MantissaBits - 1
    IN  IF last >= FxBits THEN x
        ELSE LET rest == q.sticky \/ \E i \in (last + 2)..FxBits : x[i] = 1
                 up == x[last + 1] = 1 /\ (rest \/ x[last] = 1)
                 j == CHOOSE i \in 1..last :
                         x[i] = 0 /\ \A k \in (i + 1)..last : x[k] = 1
             IN  IF up
                 THEN [i \in 1..FxBits |-> IF i < j THEN x[i] ELSE IF i = j THEN 1 ELSE 0]
                 ELSE [i \in 1..FxBits |-> IF i <= last THEN x[i] ELSE 0]

\* the exact sum, group by group from the least significant end
RECURSIVE FxSumStep(_, _, _, _, _)
FxSumStep(xs, ys, l, carry, acc) ==
    IF l = 0 THEN FromLimbs(acc)
    ELSE LET t == xs[l] + ys[l] + carry
         IN  FxSumStep(xs, ys, l - 1, t \div Pow2(LimbBits), <<t % Pow2(LimbBits)>> \o acc)

\* x + y
FxAdd(x, y) ==
    IF x = FxZero THEN y
    ELSE IF y = FxZero THEN x
    ELSE FxRound([bits |-> FxSumStep(ToLimbs(x), ToLimbs(y), NumLimbs, 0, <<>>),
                  sticky |-> FALSE])

\* x / n for a positive integer n
FxQuot(x, n) == IF x = FxZero THEN FxZero ELSE FxRound(FxDivide(x, n))

\* x >= y
FxGeq(x, y) ==
    \/ x = y
    \/ \E i \in 1..FxBits : x[i] = 1 /\ y[i] = 0 /\ \A j \in 1..(i - 1) : x[j] = y[j]

\* the double of the decimal num / den
Double(num, den) == FxQuot(FxInt(num), den)

\* the doubles of the values a numeric(3,2) severity_weight can take
WeightDouble == [w \in 0..100 |-> Double(w, 100)]

----------------------------------------------------------------------------
(* threat_patterns: the rows the catalog may hold.  Names, types and       *)
(* weights of the first rows are those of the migration's seed; the        *)
(* indicators are short strings over the model's alphabet.  The last rows  *)
(* are administrative data at the edges of the CHECK on severity_weight.   *)

Pattern(name, type, indicators, weight) ==
    [pattern_name |-> name, pattern_type |-> type,
     indicators |-> indicators, severity_weight |-> weight]

UrgentAction == Pattern("Urgent Action Required", "urgency_manipulation",
                        << <<"a", "b">>, <<"c">> >>, 75)
AuthorityImpersonation == Pattern("Authority Impersonation", "pretexting",
                                  << <<"b", "a">> >>, 85)
SuspiciousLinks == Pattern("Suspicious Links", "phishing",
                           << <<"a">>, <<"b">>, <<"c">>, <<"a", "b">> >>, 90)
FinancialRequest == Pattern("Financial Request", "baiting",
                            << <<"C", "c">> >>, 95)
MinorHint == Pattern("Minor Hint", "manipulation", << <<"b">> >>, 0)
CertainAttack == Pattern("Certain Attack", "phishing", << <<"a">>, <<"y">> >>, 100)
HalfWeight == Pattern("Half Weight", "baiting", << <<"c">> >>, 50)

PatternPool == {UrgentAction, AuthorityImpersonation, SuspiciousLinks,
                FinancialRequest, MinorHint, CertainAttack, HalfWeight}

\* every ordered selection of at most MaxPatterns distinct rows
Catalogs ==
    UNION {{c \in [1..n -> PatternPool] : \A i, j \in 1..n : i # j => c[i] # c[j]}
           : n \in 0..MaxPatterns}

SeedCatalog == <<UrgentAction, FinancialRequest>>

Contents == {<<"A", "b">>, <<"c", "C", "x">>, <<"x", "z">>, <<"b", "a", "c">>,
             <<"B", "a", "c", "c">>, <<" ">>}

----------------------------------------------------------------------------
(* analyzeThreatWithNLP and generateNLPExplanation *)

Line(label, text) == [label |-> label, text |-> text, count |-> 0, items |-> <<>>]

\* the indicators compared as written, without indicator.toLowerCase()
MatchesOf_CaseSensitive(pattern, contentLower) ==
    SelectSeq(pattern.indicators, LAMBDA indicator : includes(contentLower, indicator))

\* indicators.forEach: contentLower.includes(indicator.toLowerCase())
MatchesOf(pattern, contentLower) ==
    SelectSeq(pattern.indicators,
              LAMBDA indicator : includes(contentLower, toLowerCase(indicator)))

DetectedPatterns(patterns, content) ==
    LET contentLower == toLowerCase(content)
        all == [i \in DOMAIN patterns |->
                  [pattern |-> patterns[i],
                   matches |-> MatchesOf(patterns[i], contentLower)]]
    IN  SelectSeq(all, LAMBDA d : Len(d.matches) > 0)

RECURSIVE TotalWeight(_)
TotalWeight(detected) ==
    IF detected = <<>> THEN 0
    ELSE TotalWeight(SubSeq(detected, 1, Len(detected) - 1))
         + detected[Len(detected)].pattern.severity_weight

\* totalWeight / detectedPatterns.length in exact arithmetic, weights in hundredths
AvgWeight(detected) == Frac(TotalWeight(detected), 100 * Len(detected))

\* the score without the cap of Math.min
ConfidenceScore_Uncapped(detected) ==
    LET n == Len(detected)
        avg == AvgWeight(detected)
    IN  Frac((50 + n * 15) * avg.den + 20 * avg.num, avg.den)

\* the score counting the matched indicators instead of the matched patterns
RECURSIVE CountMatches(_)
CountMatches(detected) ==
    IF detected = <<>> THEN 0
    ELSE Len(Head(detected).matches) + CountMatches(Tail(detected))

ConfidenceScore_ByIndicators(detected) ==
    LET n == CountMatches(detected)
        avg == AvgWeight(detected)
        raw == Frac((50 + n * 15) * avg.den + 20 * avg.num, avg.den)
    IN  IF FracLeq(Frac(95, 1), raw) THEN Frac(95, 1) ELSE raw

\* Math.min(95, 50 + (detectedPatterns.length * 15) + (avgWeight * 20)).
\* The exact value: the double of the code is within 2^-40 of it, and the exact
\* value, below the cap, is a multiple of 0.1 (one or two patterns; three or more
\* reach the cap), so the numeric(5,2) stored from either is the same.
ConfidenceScore(detected) ==
    LET n == Len(detected)
        avg == AvgWeight(detected)
        raw == Frac((50 + n * 15) * avg.den + 20 * avg.num, avg.den)
    IN  IF FracLeq(Frac(95, 1), raw) THEN Frac(95, 1) ELSE raw

\* detectedPatterns.reduce((sum, p) => sum + p.pattern.severity_weight, 0) as doubles
RECURSIVE totalWeight(_)
totalWeight(detected) ==
    IF detected = <<>> THEN FxZero
    ELSE FxAdd(totalWeight(SubSeq(detected, 1, Len(detected) - 1)),
               WeightDouble[detected[Len(detected)].pattern.severity_weight])

\* totalWeight / detectedPatterns.length as a double
avgWeight(detected) == FxQuot(totalWeight(detected), Len(detected))

\* the thresholds with safe as the lowest level
SeverityLevel_SafeBelowHalf(detected) ==
    LET avg == avgWeight(detected)
    IN  IF FxGeq(avg, WeightDouble[90]) THEN "critical"
        ELSE IF FxGeq(avg, WeightDouble[75]) THEN "high"
        ELSE IF FxGeq(avg, WeightDouble[50]) THEN "medium"
        ELSE "safe"

\* if (avgWeight >= 0.9) ... else if (avgWeight >= 0.75) ... else if (avgWeight >= 0.5) ...
SeverityLevel(detected) ==
    LET avg == avgWeight(detected)
    IN  IF FxGeq(avg, WeightDouble[90]) THEN "critical"
        ELSE IF FxGeq(avg, WeightDouble[75]) THEN "high"
        ELSE IF FxGeq(avg, WeightDouble[50]) THEN "medium"
        ELSE "low"

SeverityDescription(severityLevel) ==
    CASE severityLevel = "critical" -> "CRITICAL THREAT"
      [] severityLevel = "high" -> "HIGH RISK"
      [] severityLevel = "medium" -> "MEDIUM RISK"
      [] severityLevel = "low" -> "LOW RISK"
      [] OTHER -> "Safe communication detected."

Recommendation(severityLevel) ==
    CASE severityLevel = "critical" -> "DO NOT interact with this message."
      [] severityLevel = "high" -> "Exercise extreme caution."
      [] severityLevel = "medium" -> "Be cautious."
      [] severityLevel = "low" -> "Remain alert."
      [] OTHER -> "No immediate action required."

generateNLPExplanation(detected, severityLevel, sourceType) ==
    LET patternDescriptions ==
            [i \in DOMAIN detected |->
               [label |-> "pattern", text |-> detected[i].pattern.pattern_name,
                count |-> Len(detected[i].matches),
                items |-> slice3(detected[i].matches)]]
    IN  << Line("title", "THREAT ANALYSIS SUMMARY"),
           Line("summary", SeverityDescription(severityLevel)),
           Line("source", toUpperCase(sourceType)),
           Line("header", "DETECTED ATTACK PATTERNS") >>
        \o patternDescriptions
        \o << Line("education", "WHY THIS IS A THREAT"),
              Line("action", Recommendation(severityLevel)),
              Line("reminder", "REMEMBER") >>

\* the no-data branch answering like the no-match branch
AnalysisNoData_Confident ==
    [threatType |-> "none", severityLevel |-> "safe", detectedPatterns |-> <<>>,
     confidenceScore |-> Frac(95, 1),
     nlpExplanation |-> << Line("plain", "No threats detected. This communication appears safe.") >>]

\* the value returned when the catalog query yields no data
AnalysisNoData ==
    [threatType |-> "none", severityLevel |-> "safe", detectedPatterns |-> <<>>,
     confidenceScore |-> Frac(0, 1),
     nlpExplanation |-> << Line("plain", "No threats detected. This communication appears safe.") >>]

\* the no-match branch answering like the no-data branch
AnalysisNoMatch_Unsure ==
    [threatType |-> "none", severityLevel |-> "safe", detectedPatterns |-> <<>>,
     confidenceScore |-> Frac(0, 1),
     nlpExplanation |-> << Line("plain", "Analysis complete: No social engineering indicators detected. This communication appears legitimate and safe.") >>]

\* the value returned when no pattern has a matched indicator
AnalysisNoMatch ==
    [threatType |-> "none", severityLevel |-> "safe", detectedPatterns |-> <<>>,
     confidenceScore |-> Frac(95, 1),
     nlpExplanation |-> << Line("plain", "Analysis complete: No social engineering indicators detected. This communication appears legitimate and safe.") >>]

\* the category of the matched pattern with the greatest weight
ThreatType_Heaviest(detected) ==
    LET i == CHOOSE i \in DOMAIN detected :
                \A j \in DOMAIN detected :
                   /\ detected[j].pattern.severity_weight <= detected[i].pattern.severity_weight
                   /\ (j < i => detected[j].pattern.severity_weight
                                   < detected[i].pattern.severity_weight)
    IN  detected[i].pattern.pattern_type

\* detectedPatterns[0].pattern.pattern_type
ThreatType(detected) == detected[1].pattern.pattern_type

\* patterns is None when the query returns no data, else Some(rows)
analyzeThreatWithNLP(patterns, content, sourceType) ==
    IF patterns = None THEN AnalysisNoData
    ELSE LET detected == DetectedPatterns(patterns[1], content)
         IN  IF Len(detected) = 0 THEN AnalysisNoMatch
             ELSE LET severityLevel == SeverityLevel(detected)
                  IN  [threatType |-> ThreatType(detected),
                       severityLevel |-> severityLevel,
                       detectedPatterns |->
                           [i \in DOMAIN detected |-> detected[i].pattern.pattern_name],
                       confidenceScore |-> ConfidenceScore(detected),
                       nlpExplanation |->
                           generateNLPExplanation(detected, severityLevel, sourceType)]

----------------------------------------------------------------------------
(* Tables *)

\* CHECK constraints of threat_detections
CheckDetection(row) ==
    /\ row.severity_level \in Severities
    /\ row.confidence_score >= 0 /\ row.confidence_score <= 10000
    /\ row.status \in Statuses

\* UNIQUE(user_id, date) of detection_stats
UniqueUserDate(rows, row) ==
    ~ \E r \in rows : r.user_id = row.user_id /\ r.date = row.date

DetectionRow(id, userId, a, sourceType, content, now) ==
    [id |-> id, user_id |-> userId, threat_type |-> a.threatType,
     severity_level |-> a.severityLevel, source_type |-> sourceType,
     source_content |-> content, detected_patterns |-> a.detectedPatterns,
     confidence_score |-> ToNumeric2(a.confidenceScore),
     nlp_explanation |-> a.nlpExplanation, status |-> "new",
     detected_at |-> now, resolved_at |-> NoDate]

NoHist == [fetchFailed |-> FALSE, insertFailed |-> FALSE, statsFailed |-> FALSE,
           created |-> {}, statsRows |-> {}]
NoReq == [userId |-> "", content |-> <<>>, sourceType |-> ""]
NoExisting == [today |-> NoDate, row |-> None]

SumBySeverity(r) ==
    r.threats_by_severity["safe"] + r.threats_by_severity["low"]
    + r.threats_by_severity["medium"] + r.threats_by_severity["high"]
    + r.threats_by_severity["critical"]

----------------------------------------------------------------------------
(* ThreatScanner.handleScan -> scanCommunication -> updateUserStats.       *)
(* Each await of the code is one step of the session.                      *)

\* the catalog and the tables right after the migration, no call running
Init ==
    /\ catalog = SeedCatalog
    /\ threat_detections = <<>>
    /\ detection_stats = {}
    /\ nextStatsId = 1
    /\ today = 1
    /\ threats = <<>>
    /\ pc = [p \in Sessions |-> "idle"]
    /\ req = [p \in Sessions |-> NoReq]
    /\ analysis = [p \in Sessions |-> AnalysisNoData]
    /\ existing = [p \in Sessions |-> NoExisting]
    /\ result = [p \in Sessions |-> None]
    /\ hist = [p \in Sessions |-> NoHist]
    /\ statsFaulted = FALSE

\* the same with any catalog an administrator may have set up
InitScan ==
    /\ catalog \in Catalogs
    /\ threat_detections = <<>>
    /\ detection_stats = {}
    /\ nextStatsId = 1
    /\ today = 1
    /\ threats = <<>>
    /\ pc = [p \in Sessions |-> "idle"]
    /\ req = [p \in Sessions |-> NoReq]
    /\ analysis = [p \in Sessions |-> AnalysisNoData]
    /\ existing = [p \in Sessions |-> NoExisting]
    /\ result = [p \in Sessions |-> None]
    /\ hist = [p \in Sessions |-> NoHist]
    /\ statsFaulted = FALSE

InFlight == {q \in Sessions : pc[q] \in {"fetch", "insert"}}

\* scanCommunication(userId, content, sourceType): the call itself, up to the
\* first await; the arguments are taken as given.  cap bounds the number of
\* records of a run.
beginScan(p, contents, sourceTypes, cap) ==
    /\ pc[p] = "idle"
    /\ Len(threat_detections) + Cardinality(InFlight) < cap
    /\ \E userId \in Users, content \in contents, sourceType \in sourceTypes :
         req' = [req EXCEPT ![p] = [userId |-> userId, content |-> content,
                                    sourceType |-> sourceType]]
    /\ pc' = [pc EXCEPT ![p] = "fetch"]
    /\ hist' = [hist EXCEPT ![p] = NoHist]
    /\ UNCHANGED <<catalog, threat_detections, detection_stats, nextStatsId, today,
                   threats, analysis, existing, result, statsFaulted>>

scanCommunication(p, contents, sourceTypes) ==
    /\ contents # {}
    /\ beginScan(p, contents, sourceTypes, MaxRecords)

\* handleScan: if (!content.trim()) return; then the call of scanCommunication
handleScan(p, contents, sourceTypes) ==
    LET entered == {content \in contents : trim(content) # <<>>}
    IN  /\ entered # {}
        /\ scanCommunication(p, entered, sourceTypes)

\* scanCommunication: await analyzeThreatWithNLP(content, sourceType)
FetchPatterns(p) ==
    /\ pc[p] = "fetch"
    /\ \E ok \in BOOLEAN :
         LET patterns == IF ok THEN Some(catalog) ELSE None
         IN  /\ analysis' = [analysis EXCEPT ![p] =
                    analyzeThreatWithNLP(patterns, req[p].content, req[p].sourceType)]
             /\ hist' = [hist EXCEPT ![p].fetchFailed = ~ok]
    /\ pc' = [pc EXCEPT ![p] = "insert"]
    /\ UNCHANGED <<catalog, threat_detections, detection_stats, nextStatsId, today,
                   threats, req, existing, result, statsFaulted>>

\* scanCommunication without the early return on error
AfterInsert_NoReturn(error) == "statsRead"

\* scanCommunication: if (error) return null; else await updateUserStats(...)
AfterInsert(error) == IF error THEN "done" ELSE "statsRead"

\* scanCommunication: the insert into threat_detections and the test of its error
InsertDetection(p) ==
    /\ pc[p] = "insert"
    /\ \E ok \in BOOLEAN :
         LET id == Len(threat_detections) + 1
             row == DetectionRow(id, req[p].userId, analysis[p], req[p].sourceType,
                                 req[p].content, today)
             error == ~(ok /\ CheckDetection(row))
         IN  /\ threat_detections' =
                    IF error THEN threat_detections ELSE Append(threat_detections, row)
             /\ hist' = [hist EXCEPT ![p].created = IF error THEN @ ELSE @ \cup {id},
                                     ![p].insertFailed = error]
             /\ pc' = [pc EXCEPT ![p] = AfterInsert(error)]
             /\ result' = [result EXCEPT ![p] =
                    IF AfterInsert(error) = "done" \/ error THEN None ELSE Some(row)]
    /\ UNCHANGED <<catalog, detection_stats, nextStatsId, today, threats, req,
                   analysis, existing, statsFaulted>>

\* updateUserStats: today and the select of the row of (userId, today)
StatsSelect(p) ==
    /\ pc[p] = "statsRead"
    /\ \E ok \in BOOLEAN :
         LET found == {r \in detection_stats :
                         r.user_id = req[p].userId /\ r.date = today}
         IN  /\ existing' = [existing EXCEPT ![p] =
                    [today |-> today,
                     row |-> IF ok /\ Cardinality(found) = 1
                             THEN Some(CHOOSE r \in found : TRUE) ELSE None]]
             /\ hist' = [hist EXCEPT ![p].statsFailed = @ \/ ~ok]
             /\ statsFaulted' = (statsFaulted \/ ~ok)
    /\ pc' = [pc EXCEPT ![p] = "statsWrite"]
    /\ UNCHANGED <<catalog, threat_detections, detection_stats, nextStatsId, today,
                   threats, req, analysis, result>>

\* the update forgetting the severity breakdown
UpdatedStats_NoBreakdown(old, severityLevel) ==
    [total_scanned |-> old.total_scanned + 1,
     threats_detected |-> old.threats_detected + (IF severityLevel # "safe" THEN 1 ELSE 0),
     threats_by_severity |-> old.threats_by_severity]

\* the update counting every scan as a threat
UpdatedStats_AlwaysThreat(old, severityLevel) ==
    [total_scanned |-> old.total_scanned + 1,
     threats_detected |-> old.threats_detected + 1,
     threats_by_severity |-> [old.threats_by_severity EXCEPT ![severityLevel] = @ + 1]]

\* updateUserStats: the values sent by the update of the row read
UpdatedStats(old, severityLevel) ==
    [total_scanned |-> old.total_scanned + 1,
     threats_detected |-> old.threats_detected + (IF severityLevel # "safe" THEN 1 ELSE 0),
     threats_by_severity |-> [old.threats_by_severity EXCEPT ![severityLevel] = @ + 1]]

\* updateUserStats: the row sent by the insert when no row was read
NewStats(id, userId, date, severityLevel) ==
    [id |-> id, user_id |-> userId, date |-> date, total_scanned |-> 1,
     threats_detected |-> IF severityLevel # "safe" THEN 1 ELSE 0,
     false_positives |-> 0,
     threats_by_severity |-> [s \in Severities |-> IF s = severityLevel THEN 1 ELSE 0]]

\* updateUserStats: the update of the row read, or the insert of a new row;
\* the error of either is not looked at
StatsWrite(p) ==
    /\ pc[p] = "statsWrite"
    /\ \E ok \in BOOLEAN :
         LET severityLevel == analysis[p].severityLevel
         IN  /\ statsFaulted' = (statsFaulted \/ ~ok)
             /\ IF existing[p].row # None
                THEN LET old == existing[p].row[1]
                         sent == UpdatedStats(old, severityLevel)
                         target == {r \in detection_stats : r.id = old.id}
                         new(r) == [r EXCEPT !.total_scanned = sent.total_scanned,
                                             !.threats_detected = sent.threats_detected,
                                             !.threats_by_severity = sent.threats_by_severity]
                     IN  /\ detection_stats' =
                               IF ok THEN (detection_stats \ target) \cup {new(r) : r \in target}
                               ELSE detection_stats
                         /\ hist' = [hist EXCEPT
                               ![p].statsRows = IF ok THEN @ \cup {r.id : r \in target} ELSE @,
                               ![p].statsFailed = @ \/ ~ok]
                         /\ UNCHANGED nextStatsId
                ELSE LET row == NewStats(nextStatsId, req[p].userId, existing[p].today,
                                         severityLevel)
                         accepted == ok /\ UniqueUserDate(detection_stats, row)
                     IN  /\ detection_stats' =
                               IF accepted THEN detection_stats \cup {row} ELSE detection_stats
                         /\ nextStatsId' = IF accepted THEN nextStatsId + 1 ELSE nextStatsId
                         /\ hist' = [hist EXCEPT
                               ![p].statsRows = IF accepted THEN @ \cup {row.id} ELSE @,
                               ![p].statsFailed = @ \/ ~accepted]
    /\ pc' = [pc EXCEPT ![p] = "done"]
    /\ UNCHANGED <<catalog, threat_detections, today, threats, req, analysis,
                   existing, result>>

\* handleScan after the call: the caller has the result, the session is free again
Return(p) ==
    /\ pc[p] = "done"
    /\ pc' = [pc EXCEPT ![p] = "idle"]
    /\ req' = [req EXCEPT ![p] = NoReq]
    /\ analysis' = [analysis EXCEPT ![p] = AnalysisNoData]
    /\ existing' = [existing EXCEPT ![p] = NoExisting]
    /\ result' = [result EXCEPT ![p] = None]
    /\ hist' = [hist EXCEPT ![p] = NoHist]
    /\ UNCHANGED <<catalog, threat_detections, detection_stats, nextStatsId, today,
                   threats, statsFaulted>>

\* midnight (UTC)
Tick ==
    /\ today < MaxDay
    /\ today' = today + 1
    /\ UNCHANGED <<catalog, threat_detections, detection_stats, nextStatsId, threats,
                   pc, req, analysis, existing, result, hist, statsFaulted>>

----------------------------------------------------------------------------
(* Dashboard and ThreatCard *)

ThreatLimit == 50

\* the signed-in user of the dashboard
user == "u1"

Newer(a, b) == a.detected_at > b.detected_at \/ (a.detected_at = b.detected_at /\ a.id > b.id)

RECURSIVE OrderDesc(_)
OrderDesc(rows) ==
    IF rows = {} THEN <<>>
    ELSE LET first == CHOOSE r \in rows : \A o \in rows \ {r} : Newer(r, o)
         IN  <<first>> \o OrderDesc(rows \ {first})

\* select * where user_id = userId order by detected_at desc limit 50
getUserThreats(userId) ==
    LET rows == {threat_detections[i] : i \in DOMAIN threat_detections}
        mine == OrderDesc({r \in rows : r.user_id = userId})
    IN  SubSeq(mine, 1, IF Len(mine) < ThreatLimit THEN Len(mine) ELSE ThreatLimit)

\* the update of the status alone
markThreatResolved_NoTimestamp(threatId, now) ==
    [i \in DOMAIN threat_detections |->
        IF threat_detections[i].id = threatId
        THEN [threat_detections[i] EXCEPT !.status = "resolved"]
        ELSE threat_detections[i]]

\* update threat_detections set status, resolved_at where id = threatId
markThreatResolved(threatId, now) ==
    [i \in DOMAIN threat_detections |->
        IF threat_detections[i].id = threatId
        THEN [threat_detections[i] EXCEPT !.status = "resolved", !.resolved_at = now]
        ELSE threat_detections[i]]

\* update threat_detections set status where id = threatId
markThreatAcknowledged(threatId) ==
    [i \in DOMAIN threat_detections |->
        IF threat_detections[i].id = threatId
        THEN [threat_detections[i] EXCEPT !.status = "acknowledged"]
        ELSE threat_detections[i]]

\* Dashboard.loadData: setThreats(await getUserThreats(user.id)), [] on error
loadData ==
    /\ \E ok \in BOOLEAN : threats' = IF ok THEN getUserThreats(user) ELSE <<>>
    /\ UNCHANGED <<catalog, threat_detections, detection_stats, nextStatsId, today,
                   pc, req, analysis, existing, result, hist, statsFaulted>>

\* ThreatCard i shows the Acknowledge button while its threat prop has status new
handleAcknowledge(i) ==
    /\ i \in DOMAIN threats
    /\ threats[i].status = "new"
    /\ \E ok \in BOOLEAN :
         threat_detections' = IF ok THEN markThreatAcknowledged(threats[i].id)
                              ELSE threat_detections
    /\ UNCHANGED <<catalog, detection_stats, nextStatsId, today, threats,
                   pc, req, analysis, existing, result, hist, statsFaulted>>

\* ThreatCard i shows a Resolve button while its threat prop is new or acknowledged
handleResolve(i) ==
    /\ i \in DOMAIN threats
    /\ threats[i].status \in {"new", "acknowledged"}
    /\ \E ok \in BOOLEAN :
         threat_detections' = IF ok THEN markThreatResolved(threats[i].id, today)
                              ELSE threat_detections
    /\ UNCHANGED <<catalog, detection_stats, nextStatsId, today, threats,
                   pc, req, analysis, existing, result, hist, statsFaulted>>

----------------------------------------------------------------------------
(* Specifications *)

\* inputs of the scans of Spec and SpecCards
ScanContents == {<<"A", "b">>, <<"x", "z">>}
ScanSourceTypes == {"email"}

\* concurrent scans of several sessions, across midnight
Next ==
    \/ \E p \in Sessions : handleScan(p, ScanContents, ScanSourceTypes)
    \/ \E p \in Sessions : FetchPatterns(p)
    \/ \E p \in Sessions : InsertDetection(p)
    \/ \E p \in Sessions : StatsSelect(p)
    \/ \E p \in Sessions : StatsWrite(p)
    \/ \E p \in Sessions : Return(p)
    \/ Tick

Spec == Init /\ [][Next]_vars

\* one scan of any content against any catalog
NextScan ==
    \/ handleScan(1, Contents, SourceTypes)
    \/ FetchPatterns(1)
    \/ InsertDetection(1)
    \/ StatsSelect(1)
    \/ StatsWrite(1)

SpecScan == InitScan /\ [][NextScan]_vars

\* scans of one session and the status buttons of the dashboard's cards
NextCards ==
    \/ handleScan(1, ScanContents, ScanSourceTypes)
    \/ FetchPatterns(1)
    \/ InsertDetection(1)
    \/ StatsSelect(1)
    \/ StatsWrite(1)
    \/ Return(1)
    \/ loadData
    \/ \E i \in 1..MaxRecords : handleAcknowledge(i)
    \/ \E i \in 1..MaxRecords : handleResolve(i)

SpecCards == Init /\ [][NextCards]_vars

\* arguments a caller of the exported scanCommunication can pass
ServiceContents == {<<"A", "b">>, <<" ">>, <<>>}
ServiceSourceTypes == {"email", "sms"}

\* scanCommunication called as a service function, one call after the other
NextService ==
    \/ scanCommunication(1, ServiceContents, ServiceSourceTypes)
    \/ FetchPatterns(1)
    \/ InsertDetection(1)
    \/ StatsSelect(1)
    \/ StatsWrite(1)
    \/ Return(1)

SpecService == Init /\ [][NextService]_vars

\* enough scans for one of them to be overtaken twice between its read and
\* its write of detection_stats
MaxRaceRecords == MaxRecords + 2
RaceContents == {<<"A", "b">>}

\* repeated scans of the sessions of one user within one day
scanAgain(p) ==
    /\ today = 1
    /\ beginScan(p, RaceContents, ScanSourceTypes, MaxRaceRecords)

NextRace ==
    \/ \E p \in Sessions : scanAgain(p)
    \/ \E p \in Sessions : FetchPatterns(p)
    \/ \E p \in Sessions : InsertDetection(p)
    \/ \E p \in Sessions : StatsSelect(p)
    \/ \E p \in Sessions : StatsWrite(p)
    \/ \E p \in Sessions : Return(p)

SpecRace == Init /\ [][NextRace]_vars

----------------------------------------------------------------------------
(* Properties *)

Rows == {threat_detections[i] : i \in DOMAIN threat_detections}

Analysed(p) == pc[p] \in {"insert", "statsRead", "statsWrite", "done"}

\* C1: whatever the catalog, the content and the outcome of the catalog query,
\* the confidence computed by analyzeThreatWithNLP and the confidence_score
\* stored in the row lie in [0, 95]; in particular they never reach 100.
C1_ConfidenceWithin0And95 ==
    /\ \A p \in Sessions :
         Analysed(p) =>
            /\ FracLeq(Frac(0, 1), analysis[p].confidenceScore)
            /\ FracLeq(analysis[p].confidenceScore, Frac(95, 1))
    /\ \A r \in Rows : r.confidence_score >= 0 /\ r.confidence_score <= 9500

\* a stored scan with three matched patterns, whose uncapped score exceeds 95
C1_Witness ==
    \E r \in Rows : Len(r.detected_patterns) = 3 /\ r.confidence_score = 9500

\* C2: acknowledge is legal only from new: on a row whose status is not new it
\* leaves the status as it is; on a new row the status becomes acknowledged
\* (or stays new when the request itself fails).
C2_AcknowledgeOnlyFromNew ==
    [][\A i \in 1..MaxRecords :
          handleAcknowledge(i) =>
             LET id == threats[i].id
             IN  IF threat_detections[id].status = "new"
                 THEN threat_detections'[id].status \in {"new", "acknowledged"}
                 ELSE threat_detections'[id].status = threat_detections[id].status]_vars

\* C3: a row has resolved_at set exactly when its status is resolved.
C3_ResolvedAtIffResolved ==
    \A r \in Rows : (r.resolved_at # NoDate) <=> (r.status = "resolved")

\* C4: in every row of detection_stats the five counts of threats_by_severity
\* add up to total_scanned.
C4_SeveritySumIsTotal ==
    \A r \in detection_stats : SumBySeverity(r) = r.total_scanned

\* a row that went through the update branch of updateUserStats
C4_Witness ==
    \E r \in detection_stats : r.total_scanned = 2 /\ SumBySeverity(r) = 2

\* C5: when all scans of a day have completed and no request of updateUserStats
\* was answered with an error, total_scanned of the user's row of that day is the
\* number of rows of threat_detections the scans persisted.
C5_NoLostIncrement ==
    ( /\ \A p \in Sessions : pc[p] \in {"idle", "done"}
      /\ ~statsFaulted
      /\ today = 1 )
    => \A u \in Users :
          LET persisted == Cardinality({r \in Rows : r.user_id = u})
          IN  persisted > 0 =>
                 \E r \in detection_stats :
                    r.user_id = u /\ r.date = 1 /\ r.total_scanned = persisted

\* C6: a call that returns a row has created exactly one row of threat_detections
\* and created or updated exactly one row of detection_stats, that of
\* (user_id, today).
C6_OneRecordOneStatsRow ==
    \A p \in Sessions :
       (pc[p] = "done" /\ result[p] # None) =>
          /\ Cardinality(hist[p].created) = 1
          /\ Cardinality(hist[p].statsRows) = 1
          /\ \A r \in detection_stats :
                r.id \in hist[p].statsRows =>
                   r.user_id = req[p].userId /\ r.date = existing[p].today

\* C7: when the insert into threat_detections fails the call returns null and
\* updateUserStats is not entered: no row of detection_stats is read, created or
\* changed by that call.
C7_InsertFailureSkipsStats ==
    \A p \in Sessions :
       hist[p].insertFailed =>
          /\ pc[p] = "done"
          /\ result[p] = None
          /\ hist[p].created = {}
          /\ hist[p].statsRows = {}
          /\ existing[p] = NoExisting

\* a call whose insert failed while the user already has a row of detection_stats
C7_Witness ==
    \E p \in Sessions :
       /\ hist[p].insertFailed
       /\ pc[p] = "done"
       /\ \E r \in detection_stats : r.user_id = req[p].userId

\* C8: when the select, the update or the insert of updateUserStats fails, the
\* call reports failure and no row of threat_detections created by it remains.
C8_StatsFailureFailsScan ==
    \A p \in Sessions :
       (pc[p] = "done" /\ hist[p].statsFailed) =>
          /\ result[p] = None
          /\ \A r \in Rows : r.id \notin hist[p].created

\* C9: when the catalog query yields no data the analysis is safe / 0 / none with
\* no detected pattern, the call goes on to the insert, and the row it stores
\* carries those values.
C9_FailOpenOnCatalogFailure ==
    \A p \in Sessions :
       (hist[p].fetchFailed /\ Analysed(p)) =>
          /\ analysis[p].severityLevel = "safe"
          /\ analysis[p].confidenceScore = Frac(0, 1)
          /\ analysis[p].threatType = "none"
          /\ analysis[p].detectedPatterns = <<>>
          /\ pc[p] = "done" => (hist[p].insertFailed \/ hist[p].created # {})
          /\ \A r \in Rows :
                r.id \in hist[p].created =>
                   /\ r.severity_level = "safe"
                   /\ r.confidence_score = 0
                   /\ r.threat_type = "none"
                   /\ r.detected_patterns = <<>>

\* a stored scan whose catalog query failed, of a content the catalog matches
C9_Witness ==
    \E p \in Sessions :
       /\ hist[p].fetchFailed
       /\ hist[p].created # {}
       /\ DetectedPatterns(catalog, req[p].content) # <<>>

\* C10: with an empty list of active patterns the analysis is safe / 0 / none,
\* not the confidence 95 of a catalog that was checked without a match.
C10_EmptyCatalogZeroConfidence ==
    \A p \in Sessions :
       (Analysed(p) /\ ~hist[p].fetchFailed /\ catalog = <<>>) =>
          /\ analysis[p].severityLevel = "safe"
          /\ analysis[p].confidenceScore = Frac(0, 1)
          /\ analysis[p].threatType = "none"

\* indicator occurs in content at some offset, letter case ignored
OccursIn(indicator, content) ==
    \E off \in 0..(Len(content) - Len(indicator)) :
       \A k \in 1..Len(indicator) :
          LowerChar(content[off + k]) = LowerChar(indicator[k])

\* the positions of the catalog whose pattern has an indicator occurring in content
Matching(content) ==
    {i \in DOMAIN catalog :
       \E j \in DOMAIN catalog[i].indicators : OccursIn(catalog[i].indicators[j], content)}

\* C11: with a non-empty catalog and a content in which no indicator of any
\* pattern occurs, the analysis is safe / 95 / none with no detected pattern.
C11_NoMatchIsSafe95 ==
    \A p \in Sessions :
       ( /\ Analysed(p)
         /\ ~hist[p].fetchFailed
         /\ catalog # <<>>
         /\ Matching(req[p].content) = {} )
       => /\ analysis[p].severityLevel = "safe"
          /\ analysis[p].confidenceScore = Frac(95, 1)
          /\ analysis[p].threatType = "none"
          /\ analysis[p].detectedPatterns = <<>>

\* a stored scan of a content that misses every indicator of a three-pattern catalog
C11_Witness ==
    \E p \in Sessions :
       /\ pc[p] = "done"
       /\ ~hist[p].fetchFailed
       /\ Len(catalog) = 3
       /\ Matching(req[p].content) = {}
       /\ \E r \in Rows : r.id \in hist[p].created /\ r.confidence_score = 9500

\* the sum of the severity_weight (hundredths) of the catalog positions in S
RECURSIVE SumWeights(_)
SumWeights(S) ==
    IF S = {} THEN 0
    ELSE LET i == CHOOSE j \in S : TRUE
         IN  catalog[i].severity_weight + SumWeights(S \ {i})

\* the severity of the thresholds for a mean of sum / (100 * count)
SeverityOfMean(sum, count) ==
    IF sum >= 90 * count THEN "critical"
    ELSE IF sum >= 75 * count THEN "high"
    ELSE IF sum >= 50 * count THEN "medium"
    ELSE "low"

\* C12: when a pattern matches, the severity is that of the mean severity_weight
\* of the matched patterns: critical from 0.90, high from 0.75, medium from 0.50,
\* else low, each threshold included.
C12_SeverityByMeanWeight ==
    \A p \in Sessions :
       ( /\ Analysed(p)
         /\ ~hist[p].fetchFailed
         /\ Matching(req[p].content) # {} )
       => LET M == Matching(req[p].content)
          IN  analysis[p].severityLevel = SeverityOfMean(SumWeights(M), Cardinality(M))

FracEq(a, b) == a.num * b.den = b.num * a.den

\* min(95, 50 + 15 * count + 20 * sum / (100 * count)) as a fraction over 5 * count
ExpectedConfidence(sum, count) ==
    LET raw == Frac((50 + 15 * count) * 5 * count + sum, 5 * count)
    IN  IF raw.num >= 95 * raw.den THEN Frac(95, 1) ELSE raw

\* C13: when a pattern matches, confidence = min(95, 50 + 15 * count + 20 * avg),
\* count the number of matched patterns and avg the mean of their severity_weight;
\* the stored confidence_score is that value in hundredths.
C13_ConfidenceFormula ==
    \A p \in Sessions :
       ( /\ Analysed(p)
         /\ ~hist[p].fetchFailed
         /\ Matching(req[p].content) # {} )
       => LET M == Matching(req[p].content)
              expected == ExpectedConfidence(SumWeights(M), Cardinality(M))
          IN  /\ FracEq(analysis[p].confidenceScore, expected)
              /\ \A r \in Rows :
                    r.id \in hist[p].created =>
                       r.confidence_score * expected.den = 100 * expected.num

\* a stored scan below the cap: one matched pattern with three matched indicators
C13_Witness ==
    \E p \in Sessions :
       /\ Cardinality(Matching(req[p].content)) = 1
       /\ \E i \in Matching(req[p].content) :
             Len(MatchesOf(catalog[i], toLowerCase(req[p].content))) = 3
       /\ \E r \in Rows : r.id \in hist[p].created /\ r.confidence_score = 8300

FirstOf(S) == CHOOSE i \in S : \A j \in S : i <= j

\* C14: when a pattern matches, threat_type is the pattern_type of the first
\* pattern in catalog order with a matched indicator, also when a later matched
\* pattern has a higher severity_weight.
C14_ThreatTypeOfFirstMatch ==
    \A p \in Sessions :
       ( /\ Analysed(p)
         /\ ~hist[p].fetchFailed
         /\ Matching(req[p].content) # {} )
       => LET first == catalog[FirstOf(Matching(req[p].content))]
          IN  /\ analysis[p].threatType = first.pattern_type
              /\ \A r \in Rows :
                    r.id \in hist[p].created => r.threat_type = first.pattern_type

\* a stored scan whose first matched pattern is lighter than a later matched
\* pattern of another category
C14_Witness ==
    \E p \in Sessions :
       LET M == Matching(req[p].content)
       IN  /\ M # {}
           /\ \E j \in M :
                 /\ catalog[j].severity_weight > catalog[FirstOf(M)].severity_weight
                 /\ catalog[j].pattern_type # catalog[FirstOf(M)].pattern_type
           /\ \E r \in Rows :
                 /\ r.id \in hist[p].created
                 /\ r.threat_type = catalog[FirstOf(M)].pattern_type

\* the names of the catalog's patterns at the positions of S, in catalog order
RECURSIVE NamesInOrder(_)
NamesInOrder(S) ==
    IF S = {} THEN <<>>
    ELSE <<catalog[FirstOf(S)].pattern_name>> \o NamesInOrder(S \ {FirstOf(S)})

\* C15: detected_patterns is exactly the list of the names of the patterns with
\* at least one indicator occurring in the content as a case-insensitive
\* substring, in catalog order, each once.
C15_DetectedPatternsAreTheMatching ==
    \A p \in Sessions :
       (Analysed(p) /\ ~hist[p].fetchFailed)
       => LET names == NamesInOrder(Matching(req[p].content))
          IN  /\ analysis[p].detectedPatterns = names
              /\ \A r \in Rows :
                    r.id \in hist[p].created => r.detected_patterns = names

\* a stored scan over three patterns: two match, one of them only when the
\* letter case is ignored, and one pattern does not match
C15_Witness ==
    \E p \in Sessions :
       LET M == Matching(req[p].content)
       IN  /\ Len(catalog) = 3
           /\ Cardinality(M) = 2
           /\ \E i \in M :
                 \A j \in DOMAIN catalog[i].indicators :
                    ~includes(req[p].content, catalog[i].indicators[j])
           /\ \E r \in Rows :
                 r.id \in hist[p].created /\ Len(r.detected_patterns) = 2

\* content empty after trimming, or a source type outside the four known ones
InvalidInput(r) == trim(r.content) = <<>> \/ r.sourceType \notin SourceTypes

\* C16: a call of scanCommunication with content empty after trimming or with
\* an unrecognised source_type ends without fetching the catalog, creating a
\* record or touching the statistics.
C16_InvalidInputRejectedBeforeIO ==
    \A p \in Sessions :
       (pc[p] # "idle" /\ InvalidInput(req[p]))
       => /\ pc[p] \in {"fetch", "done"}
          /\ result[p] = None
          /\ hist[p].created = {}
          /\ hist[p].statsRows = {}

\* C17: resolve on a row whose status is new or acknowledged leaves the row
\* with status resolved and resolved_at set (the row stays as it was only when
\* the store answers the update with an error).
C17_ResolveFromNewOrAcknowledged ==
    [][\A i \in 1..MaxRecords :
          (handleResolve(i) /\ threat_detections[threats[i].id].status \in {"new", "acknowledged"})
          => \/ /\ threat_detections'[threats[i].id].status = "resolved"
                /\ threat_detections'[threats[i].id].resolved_at # NoDate
             \/ threat_detections' = threat_detections]_vars

\* one row resolved from a card showing new, another from a card showing acknowledged
C17_Witness ==
    \E i, j \in DOMAIN threats :
       /\ threats[i].status = "new"
       /\ threats[j].status = "acknowledged"
       /\ \A k \in {i, j} :
             /\ threat_detections[threats[k].id].status = "resolved"
             /\ threat_detections[threats[k].id].resolved_at # NoDate

\* C18: resolved is terminal: once a row has status resolved, no later
\* acknowledge or resolve changes its status or its resolved_at.
C18_ResolvedIsTerminal ==
    [][\A id \in DOMAIN threat_detections :
          threat_detections[id].status = "resolved"
          => /\ threat_detections'[id].status = "resolved"
             /\ threat_detections'[id].resolved_at = threat_detections[id].resolved_at]_vars

\* the records of a user and day: one per scan that returned its record
RecordsOf(userId, date) ==
    {r \in Rows : r.user_id = userId /\ r.detected_at = date}

\* C19: after n scans of a user on one day that ran one after the other, each
\* returned its record and had its requests on detection_stats answered
\* without error, starting from no row of detection_stats, the row
\* of that user and day has total_scanned = n, threats_detected = the number of
\* these scans with a severity other than safe, threats_by_severity[s] = the
\* number of these scans with severity s, and false_positives = 0.
C19_SequentialScansCounted ==
    \A userId \in Users :
       LET scans == RecordsOf(userId, today)
       IN  ( /\ \A p \in Sessions : pc[p] \in {"idle", "done"}
             /\ ~statsFaulted
             /\ scans # {} )
           => \E s \in detection_stats :
                 /\ s.user_id = userId /\ s.date = today
                 /\ s.total_scanned = Cardinality(scans)
                 /\ s.threats_detected =
                       Cardinality({r \in scans : r.severity_level # "safe"})
                 /\ \A v \in Severities :
                       s.threats_by_severity[v] =
                          Cardinality({r \in scans : r.severity_level = v})
                 /\ s.false_positives = 0

\* two scans in a row, a threat and a safe one, counted in the same row
C19_Witness ==
    /\ pc[1] = "idle"
    /\ ~statsFaulted
    /\ Cardinality(RecordsOf(user, today)) = 2
    /\ \E s \in detection_stats :
          /\ s.total_scanned = 2 /\ s.threats_detected = 1
          /\ s.threats_by_severity["safe"] = 1 /\ s.threats_by_severity["high"] = 1

HasLine(explanation, label, text) ==
    \E k \in DOMAIN explanation :
       explanation[k].label = label /\ explanation[k].text = text

\* the lines of generateNLPExplanation for the safe entry of its switch, the
\* block of matched patterns left out
SafeStructure(explanation, sourceType) ==
    /\ \E k \in DOMAIN explanation :
          /\ explanation[k].label = "summary"
          /\ explanation[k].text = SeverityDescription("safe")
          /\ \A j \in 1..(k - 1) : explanation[j].label = "title"
    /\ HasLine(explanation, "source", toUpperCase(sourceType))
    /\ HasLine(explanation, "education", "WHY THIS IS A THREAT")
    /\ HasLine(explanation, "action", Recommendation("safe"))
    /\ HasLine(explanation, "reminder", "REMEMBER")
    /\ \A k \in DOMAIN explanation : explanation[k].label # "pattern"

\* C20: when a scan matches no pattern, the stored explanation has the
\* structure of generateNLPExplanation with the safe entry: the safe summary
\* first, the upper-cased source type, the educational block, the recommended
\* action of safe and the closing reminder, without the block of matched patterns.
C20_SafeExplanationStructure ==
    \A p \in Sessions :
       ( /\ Analysed(p)
         /\ ~hist[p].fetchFailed
         /\ Matching(req[p].content) = {} )
       => /\ SafeStructure(analysis[p].nlpExplanation, req[p].sourceType)
          /\ \A r \in Rows :
                r.id \in hist[p].created
                => SafeStructure(r.nlp_explanation, req[p].sourceType)

\* C21: no update of detection_stats is applied without its record: in every
\* reachable state total_scanned of the row of (user, date) is at most the
\* number of rows of threat_detections of that user detected on that date.
C21_StatsNeverExceedRecords ==
    \A s \in detection_stats :
       s.total_scanned <= Cardinality(RecordsOf(s.user_id, s.date))

\* C22: total_scanned of a row of detection_stats never decreases: no step
\* writes a value lower than the one the row held just before.
C22_TotalScannedMonotonic ==
    [][\A s \in detection_stats :
          \A t \in detection_stats' :
             t.id = s.id => t.total_scanned >= s.total_scanned]_vars

\* C23: there is at most one row of detection_stats per (user_id, date), also
\* when two scans both find no row and both insert one; the first scan of the
\* day creates the row and every later scan updates that same row: every scan
\* that returned its record, no request on detection_stats having failed, has
\* created or updated the row of its user and day.
C23_OneRowPerUserAndDay ==
    /\ \A s, t \in detection_stats :
          (s.user_id = t.user_id /\ s.date = t.date) => s = t
    /\ \A p \in Sessions :
          (pc[p] = "done" /\ result[p] # None /\ ~statsFaulted)
          => \E s \in detection_stats :
                /\ s.user_id = req[p].userId /\ s.date = existing[p].today
                /\ s.id \in hist[p].statsRows

\* C24: every record created by scanCommunication has severity_level safe
\* exactly when its detected_patterns is empty; a record with a detected pattern
\* has a severity among low, medium, high, critical and a confidence_score of at
\* least 65.
C24_SafeIffNothingDetected ==
    \A r \in Rows :
       /\ (r.severity_level = "safe") <=> (r.detected_patterns = <<>>)
       /\ r.detected_patterns # <<>>
          => /\ r.severity_level \in {"low", "medium", "high", "critical"}
             /\ r.confidence_score >= 6500

\* a record with one detected pattern of weight 0: severity low, confidence 65
C24_Witness ==
    \E r \in Rows :
       /\ Len(r.detected_patterns) = 1
       /\ r.severity_level = "low"
       /\ r.confidence_score = 6500

====
